---- MODULE Spec2Model ----
(***************************************************************************)
(* RUIAN address-registry import (models/ruian_import.py) as a state       *)
(* machine over a transactional store.                                     *)
(*                                                                         *)
(* The store is PostgreSQL behind the ORM: `db` is what is committed,      *)
(* `cr` is the cursor of the running process (its uncommitted view and     *)
(* whether the transaction is in the aborted state that follows a failed   *)
(* statement).  Tables are sequences of rows, a row's id is its position,  *)
(* so that a duplicated natural key is representable and has to be         *)
(* excluded by the code or by the UNIQUE constraints the models declare.   *)
(* The Number table is taken to carry the columns the import writes.       *)
(*                                                                         *)
(* CSV fields are encoded as integers: EMPTY is the empty/missing field,   *)
(* BAD a text that int() rejects, a positive number the text of that       *)
(* number (town code, address-point code) or a street name.                *)
(***************************************************************************)
EXTENDS Integers, Sequences, FiniteSets, TLC

VARIABLES
    today,          \* fields.Date.today(): [year, month, day]
    target_date,    \* run_ruian_import's target_date, digits YYYYMMDD (0: none)
    archive,        \* the ZIP published at the download URL
    db,             \* committed (durable) tables
    cr,             \* self.env.cr: [view, aborted]
    pc,             \* position of the process
    log,            \* id of the run's ruian.log row (0: none)
    global_stats,   \* run_ruian_import's global_stats dict
    zip_info,       \* index of the current member of zip_file.infolist()
    i,              \* _process_csv_bulk's loop variable
    town_cache,     \* _process_csv_bulk's town_cache    (code -> id)
    street_cache,   \* _process_csv_bulk's street_cache  (name -> id)
    result,         \* what the last run_ruian_import gave its caller
    hist            \* bookkeeping of the observed behaviour

vars == <<today, target_date, archive, db, cr, pc, log, global_stats, zip_info, i,
          town_cache, street_cache, result, hist>>

----------------------------------------------------------------------------
(* Bounds *)
MaxFiles   == 2     \* members of the archive
MaxRows    == 3     \* rows of the archive, all members together
MaxRuns    == 2     \* invocations of run_ruian_import
MaxCrashes == 1     \* process terminations
FirstYear  == 2023  \* the dates a run may start on: the years
LastYear   == 2024  \*   FirstYear..LastYear
MaxCoordRows == 2   \* rows of the member in the runs over coordinate texts

(* Program constants *)
chunk_size == 2     \* ruian_import.py:194 (10000 there; scaled to the row bound)
MaxMessage == 500   \* ruian_import.py:173
Hour == 3600        \* ruian_log.py:58, the seconds of an hour

NULL  == 0          \* unset field / False
EMPTY == 0          \* empty or missing CSV field
BAD   == 0 - 1      \* CSV text that is not a number
MISSING == 0 - 2    \* a column the CSV does not have: row.get() gives None
Now   == 1          \* a value of fields.Datetime.now(), in seconds
Elapsed == 7200     \* the seconds from the start of a run to its end

----------------------------------------------------------------------------
(* Inputs *)

\* town code, street name, address-point code, the town's name (what
\* _get_town_name yields) and postal code, and the texts of the X and Y
\* coordinates
Row(t, s, c, n, p, x, y) ==
    [town |-> t, street |-> s, code |-> c, name |-> n, postal_code |-> p,
     x |-> x, y |-> y]

RowSet ==
    { Row(1, 1, 1, 1, 1, 7, 8),   \* town 1, street 1, address point 1
      Row(2, 1, 2, 1, 1, BAD, 8), \* town 2, same street, address point 2;
                                  \*   X is no number
      Row(1, 2, BAD, 2, 1, EMPTY, EMPTY),
                                  \* non-integer address-point code; town 1
                                  \*   under another name
      Row(BAD, 1, 2, 1, 1, 7, 8), \* non-integer town code
      Row(2, EMPTY, EMPTY, 1, 2, MISSING, MISSING)
                                  \* no street, no address-point code; town 2
                                  \*   with another postal code
    }

\* what a coordinate column can hold: nothing, the empty text, a text that
\* is no number, a number
CoordTexts == {MISSING, EMPTY, BAD, 7}

\* rows that differ in their coordinates only, for two address points
CoordRows ==
    { Row(1, 1, c, 1, 1, x, y) : c \in {1, 2}, x \in CoordTexts, y \in CoordTexts }

\* archives of one member with such rows
CoordArchives ==
    { <<[csv |-> TRUE, rows |-> r]>> :
        r \in UNION { [1..k -> CoordRows] : k \in 1..MaxCoordRows } }

RowSeqs(n) == UNION { [1..k -> RowSet] : k \in 0..n }

Members(n) == { [csv |-> TRUE, rows |-> r] : r \in RowSeqs(n) }
              \cup { [csv |-> FALSE, rows |-> <<>>] }

RECURSIVE ArchivesOf(_, _)
ArchivesOf(nFiles, budget) ==
    IF nFiles = 0 THEN { <<>> }
    ELSE UNION { { <<m>> \o a : a \in ArchivesOf(nFiles - 1, budget - Len(m.rows)) }
                 : m \in Members(budget) }

Archives == UNION { ArchivesOf(k, MaxRows) : k \in 0..MaxFiles }

----------------------------------------------------------------------------
(* Records *)

Range(f) == { f[x] : x \in DOMAIN f }

\* dict.update / recordset.write(vals): the named fields are overwritten
Write(rec, vals) ==
    [f \in DOMAIN rec |-> IF f \in DOMAIN vals THEN vals[f] ELSE rec[f]]

----------------------------------------------------------------------------
(* Dates *)

IsLeap(y) == (y % 4 = 0 /\ y % 100 # 0) \/ y % 400 = 0

DaysIn(y, m) ==
    IF m = 2 THEN (IF IsLeap(y) THEN 29 ELSE 28)
    ELSE IF m \in {4, 6, 9, 11} THEN 30 ELSE 31

Date(y, m, d) == [year |-> y, month |-> m, day |-> d]

\* the calendar dates of the years FirstYear..LastYear
Dates ==
    { dt \in { Date(y, m, d) : y \in FirstYear..LastYear, m \in 1..12,
                               d \in 1..31 } :
         dt.day <= DaysIn(dt.year, dt.month) }

\* date.replace(day=1)
FirstOfMonth(dt) == [dt EXCEPT !.day = 1]

\* date - timedelta(days=1)
DayBefore(dt) ==
    IF dt.day > 1 THEN [dt EXCEPT !.day = @ - 1]
    ELSE IF dt.month > 1
         THEN Date(dt.year, dt.month - 1, DaysIn(dt.year, dt.month - 1))
         ELSE Date(dt.year - 1, 12, 31)

\* strftime("%Y%m%d"): the eight digits, read as a number
Strftime(dt) == dt.year * 10000 + dt.month * 100 + dt.day

\* (variant of CalculateTargetDate: one month back only)
CalculateTargetDateOnce(dt) == Strftime(DayBefore(FirstOfMonth(dt)))

\* _calculate_target_date, lines 59-64
CalculateTargetDate(dt) ==
    Strftime(DayBefore(FirstOfMonth(DayBefore(FirstOfMonth(dt)))))

----------------------------------------------------------------------------
ZeroStats ==
    [towns |-> 0, towns_created |-> 0, towns_updated |-> 0,
     streets |-> 0, streets_created |-> 0, streets_updated |-> 0,
     numbers |-> 0, numbers_created |-> 0, numbers_updated |-> 0,
     rows |-> 0, warnings |-> 0, files |-> 0]

\* a new ruian.log row: every field the create() does not name is unset
NewLog(vals) ==
    Write([name |-> NULL, state |-> "none", start_date |-> NULL,
           end_date |-> NULL, duration |-> 0,
           error_message |-> NULL, file_count |-> 0,
           towns |-> 0, towns_created |-> 0, towns_updated |-> 0,
           streets |-> 0, streets_created |-> 0, streets_updated |-> 0,
           numbers |-> 0, numbers_created |-> 0, numbers_updated |-> 0,
           rows |-> 0, warnings |-> 0, files |-> 0], vals)

EmptyDb == [towns |-> <<>>, streets |-> <<>>, numbers |-> <<>>, logs |-> <<>>]

NoCache == [k \in {} |-> 0]

----------------------------------------------------------------------------
(* Store primitives *)

RECURSIVE SetToSeq(_)
SetToSeq(S) ==
    IF S = {} THEN <<>>
    ELSE LET m == CHOOSE x \in S : \A y \in S : x <= y
         IN  <<m>> \o SetToSeq(S \ {m})

Ids(table) == 1..Len(table)

\* search([(key, "in", keys)]): the ids of the rows whose key is one of keys
Search(table, key, keys) == { k \in Ids(table) : table[k][key] \in keys }

\* {rec.key: rec for rec in records}
CacheOf(table, key, ids) ==
    [c \in { table[k][key] : k \in ids } |->
        CHOOSE k \in ids : table[k][key] = c]

\* dict.update
Update(cache, more) ==
    [c \in DOMAIN cache \cup DOMAIN more |->
        IF c \in DOMAIN more THEN more[c] ELSE cache[c]]

\* _sql_constraints UNIQUE(key): no two rows of the table agree on key
Unique(table, key) ==
    \A a, b \in Ids(table) : table[a][key] = table[b][key] => a = b

----------------------------------------------------------------------------
(* _collect_geo_data *)

\* int(town_code_str) raises ValueError on the first row whose town code is
\* present and not an integer; nothing is returned then
CollectGeoData(rows) ==
    LET R == Range(rows)
        names == { r.street : r \in { q \in R : q.street # EMPTY } }
        codes == { r.town : r \in { q \in R : q.town # EMPTY } }
        \* the first row that carries the town code
        First(c) == rows[CHOOSE k \in DOMAIN rows :
                            /\ rows[k].town = c
                            /\ \A j \in 1..(k - 1) : rows[j].town # c]
    IN  [exc |-> IF \E r \in R : r.town = BAD THEN "ValueError" ELSE "none",
         town_codes |-> codes,
         town_data_map |-> [c \in codes |->
                              [name |-> First(c).name,
                               postal_code |-> First(c).postal_code]],
         street_names |-> names,
         street_town_map |->
            [s \in { n \in names : \E r \in R : r.street = n /\ r.town # EMPTY } |->
                { r.town : r \in { q \in R : q.street = s /\ q.town # EMPTY } }]]

----------------------------------------------------------------------------
(* _process_towns *)

\* (variant of ProcessTowns: every town code of the file is created, found
\* in the store or not)
ProcessTownsAlwaysCreate(view, town_codes, town_data_map, stats) ==
    LET towns_to_create == SetToSeq(town_codes)
        created == Len(towns_to_create)
        base == Len(view.towns)
        towns1 == view.towns \o
                    [k \in 1..created |->
                        [code |-> towns_to_create[k],
                         name |-> town_data_map[towns_to_create[k]].name,
                         postal_code |-> town_data_map[towns_to_create[k]].postal_code]]
    IN  [view |-> [view EXCEPT !.towns = towns1],
         town_cache |-> [c \in town_codes |->
                            CHOOSE k \in (base + 1)..(base + created) : towns1[k].code = c],
         stats |-> [stats EXCEPT
                      !.towns_created = @ + created,
                      !.towns = @ + created]]

ProcessTowns(view, town_codes, town_data_map, stats) ==
    LET existing_towns == Search(view.towns, "code", town_codes)
        cache0 == CacheOf(view.towns, "code", existing_towns)
        missing_town_codes == town_codes \ DOMAIN cache0
        towns_to_create == SetToSeq(missing_town_codes)
        created == Len(towns_to_create)
        base == Len(view.towns)
        towns1 == view.towns \o
                    [k \in 1..created |->
                        [code |-> towns_to_create[k],
                         name |-> town_data_map[towns_to_create[k]].name,
                         postal_code |-> town_data_map[towns_to_create[k]].postal_code]]
        created_cache == [c \in missing_town_codes |->
                            CHOOSE k \in (base + 1)..(base + created) : towns1[k].code = c]
    IN  [view |-> [view EXCEPT !.towns = towns1],
         town_cache |-> Update(cache0, created_cache),
         stats |-> [stats EXCEPT
                      !.towns_created = @ + created,
                      !.towns_updated = @ + (Cardinality(town_codes) - created),
                      !.towns = @ + created]]

----------------------------------------------------------------------------
(* _process_streets *)

\* (variant of ProcessStreets: the file's towns replace the links of the
\* street)
ProcessStreetsReplace(view, street_names, street_town_map, tcache, stats) ==
    LET existing_streets == Search(view.streets, "name", street_names)
        cache0 == CacheOf(view.streets, "name", existing_streets)
        missing_streets == SetToSeq(street_names \ DOMAIN cache0)
        created == Len(missing_streets)
        base == Len(view.streets)
        streets1 == view.streets \o
                      [k \in 1..created |-> [name |-> missing_streets[k], town_ids |-> {}]]
        cache1 == Update(cache0,
                    [n \in Range(missing_streets) |->
                        CHOOSE k \in (base + 1)..(base + created) : streets1[k].name = n])
        Linked(id) ==
            IF streets1[id].name \in DOMAIN street_town_map
               /\ streets1[id].name \in DOMAIN cache1
               /\ cache1[streets1[id].name] = id
            THEN { tcache[tc] : tc \in street_town_map[streets1[id].name] \cap DOMAIN tcache }
            ELSE streets1[id].town_ids
        streets2 == [id \in Ids(streets1) |->
                       [streets1[id] EXCEPT !.town_ids = Linked(id)]]
    IN  [view |-> [view EXCEPT !.streets = streets2],
         street_cache |-> cache1,
         stats |-> [stats EXCEPT
                      !.streets_created = @ + created,
                      !.streets_updated = @ + (Cardinality(street_names) - created),
                      !.streets = @ + created]]

ProcessStreets(view, street_names, street_town_map, tcache, stats) ==
    LET existing_streets == Search(view.streets, "name", street_names)
        cache0 == CacheOf(view.streets, "name", existing_streets)
        missing_streets == SetToSeq(street_names \ DOMAIN cache0)
        created == Len(missing_streets)
        base == Len(view.streets)
        streets1 == view.streets \o
                      [k \in 1..created |-> [name |-> missing_streets[k], town_ids |-> {}]]
        cache1 == Update(cache0,
                    [n \in Range(missing_streets) |->
                        CHOOSE k \in (base + 1)..(base + created) : streets1[k].name = n])
        \* town ids the file links to the street with this id
        Linked(id) ==
            IF streets1[id].name \in DOMAIN street_town_map
               /\ streets1[id].name \in DOMAIN cache1
               /\ cache1[streets1[id].name] = id
            THEN { tcache[tc] : tc \in street_town_map[streets1[id].name] \cap DOMAIN tcache }
            ELSE {}
        \* write({"town_ids": [(4, tid) ...]}): links are added, none removed
        streets2 == [id \in Ids(streets1) |->
                       [streets1[id] EXCEPT !.town_ids = @ \cup Linked(id)]]
    IN  [view |-> [view EXCEPT !.streets = streets2],
         street_cache |-> cache1,
         stats |-> [stats EXCEPT
                      !.streets_created = @ + created,
                      !.streets_updated = @ + (Cardinality(street_names) - created),
                      !.streets = @ + created]]

----------------------------------------------------------------------------
(* _process_number_chunk *)

\* the id behind cache.get(key, empty recordset).id: False when not cached
CacheGet(cache, key) == IF key \in DOMAIN cache THEN cache[key] ELSE NULL

\* _transformer.transform(x, y), line 53: the projection of pyproj, here a
\* function that yields no zero
Transform(x, y) == [lon |-> 10 + x, lat |-> 48 + y]

\* float(text): a number for a numeric text; ValueError for other text,
\* TypeError for None
IsNumber(text) == text > 0

ZeroCoordinates == [lat |-> 0, lon |-> 0]

\* (variant of ConvertToGps: the texts are projected unparsed)
ConvertToGpsUnchecked(x_str, y_str) ==
    [lat |-> Transform(x_str, y_str).lat, lon |-> Transform(x_str, y_str).lon]

\* _convert_to_gps, lines 49-57
ConvertToGps(x_str, y_str) ==
    IF IsNumber(x_str) /\ IsNumber(y_str)
    THEN [lat |-> Transform(x_str, y_str).lat, lon |-> Transform(x_str, y_str).lon]
    ELSE ZeroCoordinates

\* lines 341-344: "if x and y", false for None and for the empty text
Coordinates(row) ==
    IF row.x \notin {MISSING, EMPTY} /\ row.y \notin {MISSING, EMPTY}
    THEN ConvertToGps(row.x, row.y)
    ELSE ZeroCoordinates

\* (variant of NumberData: the town is not resolved)
NumberDataNoTown(row, tcache, scache) ==
    [code |-> row.code,
     lat |-> Coordinates(row).lat,
     lon |-> Coordinates(row).lon,
     town_id |-> NULL,
     street_id |-> IF row.street # EMPTY THEN CacheGet(scache, row.street) ELSE NULL]

\* lines 318-346: the values of one row's Number
NumberData(row, tcache, scache) ==
    [code |-> row.code,
     lat |-> Coordinates(row).lat,
     lon |-> Coordinates(row).lon,
     town_id |-> IF row.town # EMPTY THEN CacheGet(tcache, row.town) ELSE NULL,
     street_id |-> IF row.street # EMPTY THEN CacheGet(scache, row.street) ELSE NULL]

\* num.write(data) for each entry of to_update, in order
RECURSIVE WriteNumbers(_, _, _)
WriteNumbers(numbers, to_update, existing_number_map) ==
    IF to_update = <<>> THEN numbers
    ELSE WriteNumbers(
            [numbers EXCEPT ![existing_number_map[Head(to_update).code]] = Head(to_update)],
            Tail(to_update), existing_number_map)

ProcessNumberChunk(view, chunk, tcache, scache, stats) ==
    LET HasCode(r) == r.code # EMPTY
        rowsWithCode == SelectSeq(chunk, HasCode)
        \* int(code_str) and int(town_code_str) inside the row loop
        bad == \E k \in DOMAIN rowsWithCode :
                  rowsWithCode[k].code = BAD \/ rowsWithCode[k].town = BAD
        numbers_data == [k \in DOMAIN rowsWithCode |->
                            NumberData(rowsWithCode[k], tcache, scache)]
        codes == { numbers_data[k].code : k \in DOMAIN numbers_data }
        existing_numbers == Search(view.numbers, "code", codes)
        existing_number_map == CacheOf(view.numbers, "code", existing_numbers)
        IsNew(n) == n.code \notin DOMAIN existing_number_map
        IsOld(n) == n.code \in DOMAIN existing_number_map
        to_create == SelectSeq(numbers_data, IsNew)
        to_update == SelectSeq(numbers_data, IsOld)
        created == Len(to_create)
        updated == Len(to_update)
        inserted == view.numbers \o to_create
    IN  IF bad THEN
            [exc |-> "ValueError", view |-> view, stats |-> stats]
        ELSE IF ~Unique(inserted, "code") THEN
            \* the INSERT violates code_uniq
            [exc |-> "IntegrityError", view |-> view, stats |-> stats]
        ELSE
            [exc |-> "none",
             view |-> [view EXCEPT
                         !.numbers = WriteNumbers(inserted, to_update, existing_number_map)],
             stats |-> [stats EXCEPT
                          !.numbers = @ + created,
                          !.numbers_created = @ + created,
                          !.numbers_updated = @ + updated,
                          !.rows = @ + Len(chunk)]]

----------------------------------------------------------------------------
(* Transactions *)

Entities(d) == [towns |-> d.towns, streets |-> d.streets, numbers |-> d.numbers]

\* cr.commit(): the view becomes durable
Commit(c) == c.view

\* cr.rollback(): back to what is committed, and out of the aborted state
Rollback(d) == [view |-> d, aborted |-> FALSE]

\* log.write(vals) in the transaction; the row has to exist
LogExists(view, id) == id \in Ids(view.logs)
\* _compute_duration, ruian_log.py lines 50-60
ComputeDuration(rec) ==
    IF rec.end_date # NULL /\ rec.start_date # NULL
    THEN (rec.end_date - rec.start_date) \div Hour
    ELSE 0

\* the stored computed field follows the dates, unless the write names it
LogWrite(view, id, vals) ==
    LET rec == Write(view.logs[id], vals)
    IN  [view EXCEPT !.logs[id] =
            IF "duration" \in DOMAIN vals THEN rec
            ELSE [rec EXCEPT !.duration = ComputeDuration(rec)]]

\* the lengths of str(e) that are told apart
MessageLengths == {1, MaxMessage, MaxMessage + 1}

\* (variant of ErrorMessage: the text is stored whole)
ErrorMessageWhole(len) == len

\* line 173, str(e)[:500]: the length of the text that is stored
ErrorMessage(len) == IF len > MaxMessage THEN MaxMessage ELSE len

\* (variant of FailRunning: the recovery write also clears the progress)
FailRunningReset(logs) ==
    [k \in Ids(logs) |->
        IF logs[k].state = "running"
        THEN Write(logs[k], [state |-> "failed", files |-> 0, rows |-> 0])
        ELSE logs[k]]

\* _register_hook, lines 26-28: every log found running is written failed
FailRunning(logs) ==
    [k \in Ids(logs) |->
        IF logs[k].state = "running" THEN Write(logs[k], [state |-> "failed"])
        ELSE logs[k]]

\* the member's rows (csv.DictReader over the opened member)
Rows == archive[zip_info].rows

\* (variant of FileCount: every member of the archive is counted)
FileCountAll(a) == Len(a)

\* file_count: the members whose name ends in .csv
FileCount(a) == Cardinality({ k \in DOMAIN a : a[k].csv })

InRun == pc \notin {"idle", "down"}

----------------------------------------------------------------------------
(* State *)

\* before the first run: nothing is stored, no run is in progress
Fresh ==
    /\ target_date = NULL
    /\ db = EmptyDb
    /\ cr = Rollback(EmptyDb)
    /\ pc = "idle"
    /\ log = 0
    /\ global_stats = ZeroStats
    /\ zip_info = 0
    /\ i = 0
    /\ town_cache = NoCache
    /\ street_cache = NoCache
    /\ result = "none"
    /\ hist = [runs |-> 0, crashes |-> 0, crashedIn |-> 0, downloads |-> 0,
               fetch |-> "none", base |-> Entities(EmptyDb),
               justFailed |-> FALSE, failed |-> {}, opened |-> 0,
               commits |-> 0, prev |-> "none", recovered |-> {},
               dropped |-> FALSE, before |-> Entities(EmptyDb), url |-> NULL,
               searched |-> {}, again |-> {}, handed |-> <<>>, rows0 |-> 0]

Init ==
    /\ today = Date(LastYear, 1, 15)
    /\ archive \in Archives
    /\ Fresh

\* the runs of every day of the calendar, up to the download
InitDate ==
    /\ today \in Dates
    /\ archive = <<>>
    /\ Fresh

\* run_ruian_import, lines 66-78: the log row is created in the cursor of
\* this invocation
Start ==
    /\ pc = "idle"
    /\ hist.runs < MaxRuns
    /\ target_date' = CalculateTargetDate(today)
    /\ cr' = [view |-> [db EXCEPT !.logs = Append(@,
                            NewLog([name |-> target_date', state |-> "running",
                                    start_date |-> Now]))],
              aborted |-> FALSE]
    /\ log' = Len(db.logs) + 1
    /\ pc' = "created"
    /\ result' = "none"
    /\ hist' = [hist EXCEPT !.runs = @ + 1, !.downloads = 0, !.fetch = "none",
                            !.base = Entities(db), !.justFailed = FALSE,
                            !.failed = {}, !.opened = 0, !.commits = 0,
                            !.prev = result, !.dropped = FALSE,
                            !.before = Entities(EmptyDb), !.url = NULL,
                            !.searched = {}, !.again = {}]
    /\ global_stats' = ZeroStats
    /\ zip_info' = 0
    /\ i' = 0
    /\ town_cache' = NoCache
    /\ street_cache' = NoCache
    /\ UNCHANGED <<today, archive, db>>

\* lines 80-100 with _download_zip, lines 372-393: one requests.get of the
\* URL that holds target_date (line 374, kept in hist.url); a
\* RequestException or a BadZipFile becomes a UserError
Download ==
    /\ pc = "created"
    /\ \E outcome \in {"ok", "RequestException", "BadZipFile"} :
        IF outcome = "ok"
        THEN /\ cr' = [cr EXCEPT !.view = LogWrite(@, log,
                                            [file_count |-> FileCount(archive)])]
             /\ zip_info' = 1
             /\ pc' = "loop"
             /\ hist' = [hist EXCEPT !.downloads = @ + 1, !.fetch = "ok",
                                     !.url = target_date]
        ELSE /\ pc' = "except"
             /\ hist' = [hist EXCEPT !.downloads = @ + 1, !.fetch = "failed",
                                     !.url = target_date]
             /\ UNCHANGED <<cr, zip_info>>
    /\ global_stats' = ZeroStats
    /\ UNCHANGED <<today, target_date, archive, db, log, i, town_cache,
                   street_cache, result>>

\* lines 102-104: a member that is no .csv is skipped
SkipMember ==
    /\ pc = "loop"
    /\ zip_info <= Len(archive)
    /\ ~archive[zip_info].csv
    /\ zip_info' = zip_info + 1
    /\ hist' = [hist EXCEPT !.justFailed = FALSE]
    /\ UNCHANGED <<today, target_date, archive, db, cr, pc, log, global_stats,
                   i, town_cache, street_cache, result>>

\* the natural keys of one kind that a search names
Keys(kind, values) == { <<kind, v>> : v \in values }

\* lines 109-116 and _process_csv_bulk, lines 185-191: the member is read,
\* its towns and streets are collected and upserted
OpenMember ==
    /\ pc = "loop"
    /\ zip_info <= Len(archive)
    /\ archive[zip_info].csv
    /\ LET geo == CollectGeoData(Rows)
           t == ProcessTowns(cr.view, geo.town_codes, geo.town_data_map,
                             global_stats)
           s == ProcessStreets(t.view, geo.street_names, geo.street_town_map,
                               t.town_cache, t.stats)
           keys == Keys("town", geo.town_codes) \cup Keys("street", geo.street_names)
       IN  IF geo.exc # "none" \/ cr.aborted
           THEN \* ValueError, or the search fails in the aborted transaction
                /\ pc' = "file_except"
                /\ hist' = [hist EXCEPT !.justFailed = FALSE, !.opened = @ + 1,
                                        !.before = Entities(cr.view),
                                        !.handed = <<>>,
                                        !.rows0 = global_stats.rows]
                /\ UNCHANGED <<cr, global_stats, town_cache, street_cache, i>>
           ELSE /\ cr' = [cr EXCEPT !.view = s.view]
                /\ global_stats' = s.stats
                /\ town_cache' = t.town_cache
                /\ street_cache' = s.street_cache
                /\ i' = 0
                /\ pc' = "chunks"
                /\ hist' = [hist EXCEPT !.justFailed = FALSE, !.opened = @ + 1,
                                        !.before = Entities(cr.view),
                                        !.handed = <<>>,
                                        !.rows0 = global_stats.rows,
                                        !.searched = @ \cup keys,
                                        !.again = @ \cup (hist.searched \cap keys)]
    /\ UNCHANGED <<today, target_date, archive, db, log, zip_info, result>>

\* (variant of Slice: the slice stops one row short of the next chunk)
SliceShort(rows, from) ==
    SubSeq(rows, from + 1,
           IF from + chunk_size < Len(rows) THEN from + chunk_size - 1
           ELSE Len(rows))

\* line 196, rows[i : i + chunk_size]: the rows at the zero-based positions
\* from i up to, not including, i + chunk_size or the end of the list
Slice(rows, from) ==
    SubSeq(rows, from + 1,
           IF from + chunk_size < Len(rows) THEN from + chunk_size
           ELSE Len(rows))

\* lines 195-197: the next chunk of the member goes to _process_number_chunk
NumberChunk ==
    /\ pc = "chunks"
    /\ i < Len(Rows)
    /\ LET chunk == Slice(Rows, i)
           n == ProcessNumberChunk(cr.view, chunk, town_cache, street_cache,
                                   global_stats)
           \* the codes of the search at lines 348-350, which is reached when
           \* no int() has raised
           keys == IF n.exc = "ValueError" THEN {}
                   ELSE Keys("number", { chunk[k].code : k \in DOMAIN chunk } \ {EMPTY})
       IN  /\ cr' = [view |-> n.view,
                     aborted |-> cr.aborted \/ n.exc = "IntegrityError"]
           /\ global_stats' = n.stats
           /\ pc' = IF n.exc = "none" THEN "commit" ELSE "file_except"
           /\ hist' = [hist EXCEPT !.searched = @ \cup keys,
                                   !.again = @ \cup (hist.searched \cap keys),
                                   !.handed = @ \o chunk]
    /\ UNCHANGED <<today, target_date, archive, db, log, zip_info, i,
                   town_cache, street_cache, result>>

\* lines 200-201: i % chunk_size == 0 holds for every i of the range, the
\* transaction is committed
CommitProgress ==
    /\ pc = "commit"
    /\ IF i % chunk_size = 0
       THEN /\ db' = Commit(cr)
            /\ pc' = "logwrite"
            /\ hist' = [hist EXCEPT !.commits = @ + 1]
            /\ i' = i
       ELSE /\ i' = i + chunk_size
            /\ pc' = "chunks"
            /\ UNCHANGED <<db, hist>>
    /\ UNCHANGED <<today, target_date, archive, cr, log, global_stats,
                   zip_info, town_cache, street_cache, result>>

\* lines 202-203: the counters are written to the log after that commit
WriteProgress ==
    /\ pc = "logwrite"
    /\ cr' = [cr EXCEPT !.view = LogWrite(@, log, global_stats)]
    /\ i' = i + chunk_size
    /\ pc' = "chunks"
    /\ UNCHANGED <<today, target_date, archive, db, log, global_stats,
                   zip_info, town_cache, street_cache, result, hist>>

\* lines 205-206 and 118-122: the commit after the last chunk; the member
\* counts as processed
FinalCommit ==
    /\ pc = "chunks"
    /\ i >= Len(Rows)
    /\ db' = Commit(cr)
    /\ global_stats' = [global_stats EXCEPT !.files = @ + 1]
    /\ zip_info' = zip_info + 1
    /\ pc' = "loop"
    /\ hist' = [hist EXCEPT !.commits = @ + 1, !.handed = <<>>, !.rows0 = 0]
    /\ UNCHANGED <<today, target_date, archive, cr, log, i, town_cache,
                   street_cache, result>>

\* lines 124-129: the member's exception is logged and counted, the loop
\* goes on; the transaction is left as it is
FileExcept ==
    /\ pc = "file_except"
    /\ global_stats' = [global_stats EXCEPT !.warnings = @ + 1]
    /\ zip_info' = zip_info + 1
    /\ pc' = "loop"
    /\ hist' = [hist EXCEPT !.justFailed = TRUE, !.failed = @ \cup {zip_info},
                            !.handed = <<>>, !.rows0 = 0]
    /\ UNCHANGED <<today, target_date, archive, db, cr, log, i, town_cache,
                   street_cache, result>>

\* lines 131-140 and 180: the log is written done and committed; in an
\* aborted transaction the write fails and the outer handler takes over
Finish ==
    /\ pc = "loop"
    /\ zip_info > Len(archive)
    /\ IF cr.aborted \/ ~LogExists(cr.view, log)
       THEN /\ pc' = "except"
            /\ UNCHANGED <<db, cr, result>>
       ELSE \E written \in BOOLEAN :
            \* total_duration, in seconds, is written to the computed field
            \* duration together with end_date: the ORM keeps the written
            \* value, or computes the field anew from the dates
            LET total_duration == Elapsed
                view == IF written
                        THEN LogWrite(cr.view, log,
                                [state |-> "done", end_date |-> Now + Elapsed,
                                 files |-> global_stats.files,
                                 duration |-> total_duration])
                        ELSE LogWrite(cr.view, log,
                                [state |-> "done", end_date |-> Now + Elapsed,
                                 files |-> global_stats.files])
            IN  /\ cr' = [cr EXCEPT !.view = view]
                /\ db' = view
                /\ result' = "True"
                /\ pc' = "idle"
    /\ hist' = [hist EXCEPT !.justFailed = FALSE]
    /\ UNCHANGED <<today, target_date, archive, log, global_stats, zip_info, i,
                   town_cache, street_cache>>

\* lines 167-178: rollback, the log is written failed and committed, the
\* caller gets a UserError.  When the rollback has taken the log row away,
\* the write either raises MissingError (itself a UserError) before the
\* commit, or updates no row.
Except ==
    /\ pc = "except"
    /\ LET back == Rollback(db)
       IN  IF LogExists(back.view, log)
           THEN \E len \in MessageLengths :
                LET view == LogWrite(back.view, log,
                               [state |-> "failed", end_date |-> Now + Elapsed,
                                error_message |-> ErrorMessage(len)])
                IN  /\ cr' = [back EXCEPT !.view = view]
                    /\ db' = view
                    /\ result' = "UserError"
           ELSE /\ cr' = back
                /\ db' = db
                /\ \E raised \in {"UserError", "MissingError"} : result' = raised
    /\ pc' = "idle"
    /\ hist' = [hist EXCEPT !.dropped = Entities(cr.view) # Entities(db)]
    /\ UNCHANGED <<today, target_date, archive, log, global_stats, zip_info, i,
                   town_cache, street_cache>>

\* the process terminates: only what is committed survives
Crash ==
    /\ pc # "down"
    /\ hist.crashes < MaxCrashes
    /\ pc' = "down"
    /\ cr' = Rollback(db)
    /\ hist' = [hist EXCEPT !.crashes = @ + 1,
                            !.crashedIn = IF InRun THEN hist.runs ELSE @,
                            !.fetch = "none", !.justFailed = FALSE,
                            !.before = Entities(EmptyDb), !.url = NULL,
                            !.searched = {}, !.again = {},
                            !.handed = <<>>, !.rows0 = 0]
    /\ target_date' = NULL
    /\ log' = 0
    /\ result' = "none"
    /\ global_stats' = ZeroStats
    /\ zip_info' = 0
    /\ i' = 0
    /\ town_cache' = NoCache
    /\ street_cache' = NoCache
    /\ UNCHANGED <<today, archive, db>>

\* _register_hook, lines 22-30, on the start of the server
RegisterHook ==
    /\ pc = "down"
    /\ LET logs == Search(db.logs, "state", {"running"})
       IN  /\ db' = IF logs # {} THEN [db EXCEPT !.logs = FailRunning(@)] ELSE db
           /\ hist' = [hist EXCEPT !.recovered = logs]
    /\ cr' = Rollback(db')
    /\ pc' = "idle"
    /\ UNCHANGED <<today, target_date, archive, log, global_stats, zip_info, i,
                   town_cache, street_cache, result>>

Next ==
    \/ Start
    \/ Download
    \/ SkipMember
    \/ OpenMember
    \/ NumberChunk
    \/ CommitProgress
    \/ WriteProgress
    \/ FinalCommit
    \/ FileExcept
    \/ Finish
    \/ Except
    \/ Crash
    \/ RegisterHook

Spec == Init /\ [][Next]_vars

\* _register_hook, lines 22-30, in another worker that loads the registry
\* while this one runs the import.  It sees what is committed.  Taken here
\* only where the run has no transaction open (right after a commit), so
\* that the two transactions do not overlap: the run's next statement
\* starts from the store the hook has left.
RegisterHookElsewhere ==
    /\ InRun
    /\ ~cr.aborted
    /\ cr.view = db
    /\ pc = "logwrite" \/ (pc = "loop" /\ ~hist.justFailed)
    /\ LET logs == Search(db.logs, "state", {"running"})
       IN  /\ logs # {}
           /\ db' = [db EXCEPT !.logs = FailRunning(@)]
           /\ cr' = [cr EXCEPT !.view = db']
    /\ UNCHANGED <<today, target_date, archive, pc, log, global_stats,
                   zip_info, i, town_cache, street_cache, result, hist>>

NextWorkers == Next \/ RegisterHookElsewhere

SpecWorkers == Init /\ [][NextWorkers]_vars

\* the runs over every combination of coordinate texts
InitCoord ==
    /\ today = Date(LastYear, 1, 15)
    /\ archive \in CoordArchives
    /\ Fresh

NextCoord ==
    \/ Start
    \/ Download
    \/ OpenMember
    \/ NumberChunk
    \/ CommitProgress
    \/ WriteProgress
    \/ FinalCommit
    \/ FileExcept
    \/ Finish
    \/ Except

SpecCoord == InitCoord /\ [][NextCoord]_vars

NextDate == Start \/ Download

SpecDate == InitDate /\ [][NextDate]_vars

----------------------------------------------------------------------------
(* What the claims speak about *)

\* the run's log row as committed
DurableLog == db.logs[log]

\* a run has just handed its result to the caller
Returned == pc = "idle" /\ result # "none"

CounterFields == DOMAIN ZeroStats \cup {"file_count"}

\* the tables without their ids
Content(e) ==
    [towns |-> { e.towns[k] : k \in Ids(e.towns) },
     streets |-> { [name |-> e.streets[k].name,
                    towns |-> { e.towns[t].code : t \in e.streets[k].town_ids }]
                   : k \in Ids(e.streets) },
     numbers |-> { [code |-> e.numbers[k].code,
                    lat |-> e.numbers[k].lat,
                    lon |-> e.numbers[k].lon,
                    town |-> IF e.numbers[k].town_id = NULL THEN NULL
                             ELSE e.towns[e.numbers[k].town_id].code,
                    street |-> IF e.numbers[k].street_id = NULL THEN NULL
                               ELSE e.streets[e.numbers[k].street_id].name]
                   : k \in Ids(e.numbers) }]

NoDuplicates(e) ==
    /\ Unique(e.towns, "code")
    /\ Unique(e.streets, "name")
    /\ Unique(e.numbers, "code")

\* the rows of the archive's .csv members
CsvRows == UNION { Range(archive[z].rows) : z \in { k \in DOMAIN archive : archive[k].csv } }

\* a row on which int() raises
Raises(r) == r.town = BAD \/ r.code = BAD

----------------------------------------------------------------------------
\* C1: when the download or the archive validation fails, the run's log row
\* is afterwards durable in state failed with an error message, the caller
\* gets a user-facing error, and the download was attempted exactly once.
C1_FetchFailureLogged ==
    (Returned /\ hist.fetch = "failed") =>
        /\ LogExists(db, log)
        /\ DurableLog.state = "failed"
        /\ DurableLog.error_message # NULL
        /\ result \in {"UserError", "MissingError"}
        /\ hist.downloads = 1

\* C2: in every state of every run log, running implies end_date unset and
\* done or failed implies end_date set.
C2_EndDateMatchesState ==
    \A logs \in {db.logs, cr.view.logs} : \A k \in Ids(logs) :
        /\ logs[k].state = "running" => logs[k].end_date = NULL
        /\ logs[k].state \in {"done", "failed"} => logs[k].end_date # NULL

\* C3: the startup recovery leaves no committed log running; each log it
\* found running is failed and keeps every counter it had.
C3_RecoveryFailsRunningLogs ==
    [][(pc = "down" /\ pc' = "idle") =>
          /\ Len(db'.logs) = Len(db.logs)
          /\ \A k \in Ids(db.logs) :
                /\ db'.logs[k].state # "running"
                /\ db.logs[k].state = "running" => db'.logs[k].state = "failed"
                /\ \A f \in CounterFields : db'.logs[k][f] = db.logs[k][f]]_vars

\* a log committed with progress was found running and has been recovered
C3_Witness ==
    /\ pc = "idle"
    /\ \E k \in hist.recovered :
          /\ db.logs[k].state = "failed"
          /\ db.logs[k].rows > 0
          /\ db.logs[k].file_count > 0

----------------------------------------------------------------------------
(* A run from the empty store that nothing interrupts, on the entity tables *)

RECURSIVE RunChunks(_, _, _, _, _, _)
RunChunks(view, committed, rows, at, tcache, scache) ==
    IF at >= Len(rows)
    THEN [exc |-> "none", view |-> view, committed |-> view]
    ELSE LET hi == IF at + chunk_size < Len(rows) THEN at + chunk_size ELSE Len(rows)
             n == ProcessNumberChunk(view, SubSeq(rows, at + 1, hi), tcache, scache,
                                     ZeroStats)
         IN  IF n.exc # "none"
             THEN [exc |-> n.exc, view |-> n.view, committed |-> committed]
             ELSE RunChunks(n.view, n.view, rows, at + chunk_size, tcache, scache)

RECURSIVE RunMembers(_, _, _, _, _)
RunMembers(a, z, view, committed, aborted) ==
    IF z > Len(a) THEN (IF aborted THEN committed ELSE view)
    ELSE IF ~a[z].csv THEN RunMembers(a, z + 1, view, committed, aborted)
    ELSE LET geo == CollectGeoData(a[z].rows)
             t == ProcessTowns(view, geo.town_codes, geo.town_data_map, ZeroStats)
             s == ProcessStreets(t.view, geo.street_names, geo.street_town_map,
                                 t.town_cache, ZeroStats)
             c == RunChunks(s.view, committed, a[z].rows, 0, t.town_cache,
                            s.street_cache)
         IN  IF geo.exc # "none" \/ aborted
             THEN RunMembers(a, z + 1, view, committed, aborted)
             ELSE RunMembers(a, z + 1, c.view, c.committed,
                             c.exc = "IntegrityError")

UninterruptedRun(a) ==
    RunMembers(a, 1, Entities(EmptyDb), Entities(EmptyDb), FALSE)

----------------------------------------------------------------------------
\* C4: a second run on the unchanged archive leaves the Town, Street and
\* Number rows of the first, duplicates no key, creates nothing and counts an
\* update for every entity kind the archive holds.
C4_SecondRunIdempotent ==
    (Returned /\ hist.runs >= 2 /\ hist.crashes = 0
              /\ hist.prev = "True" /\ result = "True") =>
        /\ Content(Entities(db)) = Content(hist.base)
        /\ NoDuplicates(db)
        /\ global_stats.towns_created = 0
        /\ global_stats.streets_created = 0
        /\ global_stats.numbers_created = 0
        /\ (\E r \in CsvRows : r.town > 0) => global_stats.towns_updated > 0
        /\ (\E r \in CsvRows : r.street > 0) => global_stats.streets_updated > 0
        /\ (\E r \in CsvRows : r.code > 0) => global_stats.numbers_updated > 0

\* C5: a row on which processing raises never aborts its file: every other
\* row of the member is processed and its Number is created or updated.
C5_MalformedRowKeepsFile ==
    (Returned /\ result = "True") =>
        \A z \in DOMAIN archive : \A j, k \in DOMAIN archive[z].rows :
            LET bad == archive[z].rows[j]
                row == archive[z].rows[k]
            IN  (archive[z].csv /\ Raises(bad) /\ ~Raises(row) /\ row.code # EMPTY)
                    => \E n \in Ids(db.numbers) : db.numbers[n].code = row.code

\* C6: an exception raised in one member does not abort the run: the later
\* members are opened, the log is committed done with its end timestamp and
\* the caller gets success.
C6_FileErrorDoesNotAbortRun ==
    (Returned /\ hist.fetch = "ok" /\ hist.failed # {}) =>
        /\ result = "True"
        /\ hist.opened = FileCount(archive)
        /\ LogExists(db, log)
        /\ DurableLog.state = "done"
        /\ DurableLog.end_date # NULL

\* C7: when a member fails, the entity writes made for it so far are rolled
\* back: past the handler the transaction holds no entity write that is not
\* committed, so none can become durable.
C7_FailedMemberRolledBack ==
    hist.justFailed => Entities(cr.view) = Entities(db)

\* C8: at every durable state the counters stored in the run's log equal the
\* entity work of the run that is durable.
C8_CheckpointAtomicWithCounters ==
    (log # 0 /\ Entities(db) # hist.base) =>
        /\ LogExists(db, log)
        /\ DurableLog.towns_created = Len(db.towns) - Len(hist.base.towns)
        /\ DurableLog.streets_created = Len(db.streets) - Len(hist.base.streets)
        /\ DurableLog.numbers_created = Len(db.numbers) - Len(hist.base.numbers)

\* C9: after a crash at any point of a run, a further run to completion on
\* the same archive leaves the Town/Street/Number store of a single
\* uninterrupted run: no key duplicated, none missing.  (A first run that
\* nothing interrupts is held against UninterruptedRun as well.)
C9_RerunAfterCrashConverges ==
    (Returned /\ hist.fetch = "ok" /\ (hist.crashedIn > 0 \/ hist.runs = 1)) =>
        /\ Content(Entities(db)) = Content(UninterruptedRun(archive))
        /\ NoDuplicates(db)

\* a run that crashed after a checkpoint was followed by a complete run
\* that added to what had survived
C9_Witness ==
    /\ Returned /\ result = "True" /\ hist.fetch = "ok"
    /\ hist.crashedIn = 1 /\ hist.runs = 2
    /\ Len(hist.base.numbers) > 0
    /\ Len(db.numbers) > Len(hist.base.numbers)
    /\ Len(db.towns) > Len(hist.base.towns)

\* C10: the log row, running and with its start timestamp, is committed
\* before the fetch begins, so it is in the store at every later point of
\* the run.
C10_LogCommittedBeforeFetch ==
    InRun =>
        /\ LogExists(db, log)
        /\ DurableLog.start_date # NULL

----------------------------------------------------------------------------
\* C11: when an exception escapes the per-file handling after a checkpoint
\* was committed, the handler leaves the durable entity tables as the last
\* commit made them (the uncommitted writes are gone), commits the log failed
\* with end_date and an error_message of at most 500 characters, and gives
\* the caller a UserError.
C11_FatalFailureLogged ==
    [][(pc = "except" /\ pc' = "idle" /\ hist.commits > 0) =>
          /\ Entities(db') = Entities(db)
          /\ Entities(cr'.view) = Entities(db)
          /\ LogExists(db', log)
          /\ db'.logs[log].state = "failed"
          /\ db'.logs[log].end_date # NULL
          /\ db'.logs[log].error_message \in 1..MaxMessage
          /\ result' = "UserError"]_vars

\* a run failed after a checkpoint, with uncommitted entity writes to drop
\* and a message longer than the limit
C11_Witness ==
    /\ Returned /\ result = "UserError"
    /\ hist.commits > 0 /\ hist.dropped
    /\ DurableLog.state = "failed"
    /\ DurableLog.error_message = MaxMessage
    /\ Len(db.towns) > Len(hist.base.towns)

----------------------------------------------------------------------------
\* C12: when a run ends, the warnings field stored in its log equals the
\* number of member failures that were caught and recovered during the run.
C12_WarningsReachTheLog ==
    (Returned /\ result = "True") =>
        DurableLog.warnings = Cardinality(hist.failed)

----------------------------------------------------------------------------
\* C13: on an empty store, a run over an archive whose rows are all
\* well-formed ends with its log done, warnings 0, and towns, streets and
\* numbers equal to the numbers of distinct town codes, distinct non-empty
\* street names and distinct address-point codes of the archive.
C13_CleanImportCounts ==
    (Returned /\ hist.fetch = "ok" /\ hist.base = Entities(EmptyDb)
              /\ \A r \in CsvRows : ~Raises(r)) =>
        /\ result = "True"
        /\ LogExists(db, log)
        /\ DurableLog.state = "done"
        /\ DurableLog.warnings = 0
        /\ DurableLog.towns = Cardinality({ r.town : r \in CsvRows } \ {EMPTY})
        /\ DurableLog.streets = Cardinality({ r.street : r \in CsvRows } \ {EMPTY})
        /\ DurableLog.numbers = Cardinality({ r.code : r \in CsvRows } \ {EMPTY})

----------------------------------------------------------------------------
\* the chunk that _process_number_chunk has just been given
Chunk == Slice(Rows, i)

\* every town and street reference of a Number points to a row of the store
Referenced(e) ==
    \A n \in Ids(e.numbers) :
        /\ e.numbers[n].town_id # NULL => e.numbers[n].town_id \in Ids(e.towns)
        /\ e.numbers[n].street_id # NULL => e.numbers[n].street_id \in Ids(e.streets)

\* C14: after a chunk is processed, the Number of every row with a town code
\* and an address-point code (the last such row, where the chunk repeats a
\* code) has a town_id referring to an existing Town with the row's town
\* code, and its street reference, if set, refers to an existing Street with
\* the row's street name; no reference in the store dangles.
C14_NumberReferencesResolve ==
    /\ Referenced(cr.view) /\ Referenced(db)
    /\ pc = "commit" =>
          \A k \in DOMAIN Chunk :
              LET row == Chunk[k]
              IN  (/\ row.town # EMPTY /\ row.code # EMPTY
                   /\ \A j \in DOMAIN Chunk : j > k => Chunk[j].code # row.code) =>
                      \E n \in Ids(cr.view.numbers) :
                          LET num == cr.view.numbers[n]
                          IN  /\ num.code = row.code
                              /\ num.town_id \in Ids(cr.view.towns)
                              /\ cr.view.towns[num.town_id].code = row.town
                              /\ num.street_id # NULL =>
                                    /\ num.street_id \in Ids(cr.view.streets)
                                    /\ cr.view.streets[num.street_id].name = row.street

\* a chunk has created one Number and updated another, both with a town
C14_Witness ==
    /\ pc = "commit"
    /\ Len(Chunk) = 2
    /\ Chunk[1].town # EMPTY /\ Chunk[1].code # EMPTY
    /\ Chunk[2].town # EMPTY /\ Chunk[2].code # EMPTY
    /\ Chunk[1].town # Chunk[2].town
    /\ Len(db.numbers) = 1 /\ Len(cr.view.numbers) = 2

----------------------------------------------------------------------------
\* the codes of the towns linked to the streets of this name
LinkedTowns(e, name) ==
    UNION { { e.towns[t].code : t \in e.streets[k].town_ids }
            : k \in { j \in Ids(e.streets) : e.streets[j].name = name } }

\* C15: when a member has been processed, every street name in it has one
\* Street, whose towns are those linked before the member together with the
\* towns whose codes stand on the rows with that street name; no link that
\* existed before has gone.
C15_StreetTownsAreUnion ==
    [][(pc = "chunks" /\ pc' = "loop") =>
          \A r \in Range(Rows) : r.street # EMPTY =>
              /\ Cardinality({ k \in Ids(db'.streets) :
                                 db'.streets[k].name = r.street }) = 1
              /\ LinkedTowns(db', r.street) =
                    LinkedTowns(hist.before, r.street)
                    \cup { q.town : q \in { p \in Range(Rows) :
                                             p.street = r.street /\ p.town # EMPTY } }]_vars

\* a member has added a second town to a street that an earlier member made
C15_Witness ==
    /\ pc = "loop" /\ zip_info = 3 /\ hist.failed = {}
    /\ \E k \in Ids(db.streets) :
          /\ Cardinality(db.streets[k].town_ids) = 2
          /\ k \in Ids(hist.before.streets)
          /\ Cardinality(hist.before.streets[k].town_ids) = 1

----------------------------------------------------------------------------
\* C16: a row without an address-point code still has its Town and its Street
\* created or resolved and the street linked to the town; it makes no Number
\* and no warning.
C16_CodelessRowKeepsTownAndStreet ==
    (Returned /\ result = "True") =>
        \A r \in CsvRows : (r.code = EMPTY /\ r.town # EMPTY /\ ~Raises(r)) =>
            /\ \E t \in Ids(db.towns) : db.towns[t].code = r.town
            /\ r.street # EMPTY =>
                  /\ \E k \in Ids(db.streets) : db.streets[k].name = r.street
                  /\ r.town \in LinkedTowns(db, r.street)

----------------------------------------------------------------------------
\* C17: in every state every run log, committed or in the transaction, has
\* files <= file_count, and a file_count that the run has set is the number
\* of the archive's members whose name ends in .csv.
C17_FilesWithinFileCount ==
    LET csvMembers == Cardinality({ k \in DOMAIN archive : archive[k].csv })
        Bounded(logs) ==
            \A k \in Ids(logs) :
                /\ logs[k].files <= logs[k].file_count
                /\ logs[k].file_count \in {0, csvMembers}
    IN  /\ Bounded(db.logs)
        /\ Bounded(cr.view.logs)
        /\ (pc \in {"loop", "chunks", "commit", "logwrite", "file_except"}
            /\ LogExists(cr.view, log)) => cr.view.logs[log].file_count = csvMembers

\* a run is done with every .csv member processed, in an archive that also
\* holds a member of another kind
C17_Witness ==
    /\ Returned /\ result = "True"
    /\ Len(archive) = 2
    /\ DurableLog.file_count = 1
    /\ DurableLog.files = 1

----------------------------------------------------------------------------
\* the year and the month two calendar months before the month of dt
TwoMonthsBack(dt) ==
    [year |-> IF dt.month <= 2 THEN dt.year - 1 ELSE dt.year,
     month |-> ((dt.month + 9) % 12) + 1]

\* C18 as stated: the date in the download URL lies in the month two months
\* before the current one and its day is the first of that month.
C18_TargetDateFirstOfMonth ==
    hist.url # NULL =>
        hist.url = TwoMonthsBack(today).year * 10000
                   + TwoMonthsBack(today).month * 100 + 1

\* C18, amended: the date in the download URL (and in the log's name) lies
\* in the month two months before the current one, the year before for
\* January and February, and its day is the last day of that month.
C18_TargetDateLastOfMonth ==
    hist.url # NULL =>
        LET m == TwoMonthsBack(today)
            last == IF m.month = 2
                    THEN (IF m.year % 4 = 0 /\ (m.year % 100 # 0 \/ m.year % 400 = 0)
                          THEN 29 ELSE 28)
                    ELSE IF m.month \in {4, 6, 9, 11} THEN 30 ELSE 31
        IN  /\ hist.url = m.year * 10000 + m.month * 100 + last
            /\ LogExists(cr.view, log) => cr.view.logs[log].name = hist.url

\* a download in February, for the December of the year before
C18_Witness ==
    /\ hist.url # NULL
    /\ today.month = 2
    /\ hist.url = (today.year - 1) * 10000 + 1231

----------------------------------------------------------------------------
\* C19: within one run no natural key (town code, street name, number code)
\* is looked up in the store a second time: later references are served
\* from the cache.
C19_EachKeyLookedUpOnce ==
    hist.again = {}

----------------------------------------------------------------------------
\* C20: when the towns of a member have been processed, every Town whose
\* code stands in the member, found in the store or created, carries the
\* name and the postal code that the member gives for the code (an existing
\* Town is refreshed).
C20_ExistingTownRefreshed ==
    pc = "chunks" =>
        LET geo == CollectGeoData(Rows)
        IN  \A c \in geo.town_codes : \A t \in Ids(cr.view.towns) :
                cr.view.towns[t].code = c =>
                    /\ cr.view.towns[t].name = geo.town_data_map[c].name
                    /\ cr.view.towns[t].postal_code = geo.town_data_map[c].postal_code

----------------------------------------------------------------------------
\* C21: a chunk whose rows all parse is processed without error, also when
\* rows of it, or of an earlier chunk, carry the same address-point code:
\* afterwards each code of the chunk has exactly one Number, and a create
\* was counted only for the codes the store did not hold.
C21_RepeatedCodeUpdates ==
    [][(pc = "chunks" /\ pc' \in {"commit", "file_except"}
        /\ \A k \in DOMAIN Chunk : ~Raises(Chunk[k])) =>
          LET codes == { Chunk[k].code : k \in DOMAIN Chunk } \ {EMPTY}
              held == { cr.view.numbers[n].code : n \in Ids(cr.view.numbers) }
          IN  /\ pc' = "commit"
              /\ \A c \in codes :
                    Cardinality({ n \in Ids(cr'.view.numbers) :
                                    cr'.view.numbers[n].code = c }) = 1
              /\ global_stats'.numbers_created =
                    global_stats.numbers_created + Cardinality(codes \ held)]_vars

----------------------------------------------------------------------------
\* a row whose X or Y coordinate is missing, empty or no number
BadCoordinates(row) == ~(row.x > 0 /\ row.y > 0)

\* C22: when a chunk holds rows whose X or Y coordinate is missing, empty or
\* no number, no exception comes of it (the chunk fails only where an
\* address-point code is repeated or a code is no integer), the Number of
\* each such row is created or updated with the coordinates (0, 0), a row
\* with two numbers gets coordinates other than that, and no step counts a
\* warning for a member unless it has such a code or the transaction was
\* aborted before.
C22_BadCoordinatesGiveZero ==
    [][/\ (pc = "chunks" /\ pc' \in {"commit", "file_except"}) =>
            /\ pc' = "file_except" =>
                  \/ \E j, k \in DOMAIN Chunk : j # k /\ Chunk[j].code = Chunk[k].code
                  \/ \E k \in DOMAIN Chunk : Raises(Chunk[k])
            /\ pc' = "commit" =>
                  \A k \in DOMAIN Chunk :
                      (/\ Chunk[k].code # EMPTY
                       /\ \A j \in DOMAIN Chunk : j > k => Chunk[j].code # Chunk[k].code) =>
                          \E n \in Ids(cr'.view.numbers) :
                              LET num == cr'.view.numbers[n]
                              IN  /\ num.code = Chunk[k].code
                                  /\ BadCoordinates(Chunk[k]) =>
                                        (num.lat = 0 /\ num.lon = 0)
                                  /\ ~BadCoordinates(Chunk[k]) =>
                                        (num.lat # 0 /\ num.lon # 0)
       /\ global_stats'.warnings > global_stats.warnings =>
            \/ \E j, k \in DOMAIN Rows : j # k /\ Rows[j].code = Rows[k].code
            \/ \E k \in DOMAIN Rows : Raises(Rows[k])
            \/ cr.aborted]_vars

\* a second run has updated, to (0, 0), a Number whose row has a text that
\* is no number for X and a number for Y, next to a Number with coordinates
C22_Witness ==
    /\ pc = "commit" /\ hist.runs = 2
    /\ global_stats.numbers_updated = 2
    /\ Len(Chunk) = 2
    /\ Chunk[1].x = BAD /\ Chunk[1].y > 0
    /\ ~BadCoordinates(Chunk[2])
    /\ \E n \in Ids(cr.view.numbers) :
          /\ cr.view.numbers[n].code = Chunk[1].code
          /\ cr.view.numbers[n].lat = 0 /\ cr.view.numbers[n].lon = 0

----------------------------------------------------------------------------
\* C23: the duration stored in a run log is zero while the log has no
\* end_date, and with an end_date it is (end_date - start_date) in hours.
C23_DurationInHours ==
    \A k \in Ids(db.logs) :
        /\ db.logs[k].end_date = NULL => db.logs[k].duration = 0
        /\ db.logs[k].end_date # NULL =>
              db.logs[k].duration * 3600 = db.logs[k].end_date - db.logs[k].start_date

----------------------------------------------------------------------------
\* C24: a run log's terminal states are absorbing: no step changes the
\* state of a committed log that is done or failed, also when the startup
\* hook runs in another worker while a run is in progress.
C24_TerminalStatesAbsorbing ==
    [][\A k \in Ids(db.logs) :
          db.logs[k].state \in {"done", "failed"} =>
              /\ k \in Ids(db'.logs)
              /\ db'.logs[k].state = db.logs[k].state]_vars


----------------------------------------------------------------------------
\* C25: the chunks of _process_csv_bulk partition the member's rows. The rows
\* handed to _process_number_chunk so far are at every moment the first rows
\* of the member, in the member's order and each one once, and the rows
\* counter has grown since the member was opened by the number of rows
\* handed; when the loop over the chunks has ended without an exception the
\* rows handed are the member's rows and the counter has grown by their
\* number. This holds for members of 0, 1, chunk_size and chunk_size + 1 rows.
C25_ChunksPartitionRows ==
    /\ pc \in {"chunks", "commit", "logwrite"} =>
          /\ Len(hist.handed) <= Len(Rows)
          /\ hist.handed = SubSeq(Rows, 1, Len(hist.handed))
          /\ global_stats.rows = hist.rows0 + Len(hist.handed)
    /\ pc = "chunks" /\ i >= Len(Rows) =>
          /\ hist.handed = Rows
          /\ global_stats.rows = hist.rows0 + Len(Rows)

\* a member of chunk_size + 1 rows has gone through the loop in two chunks,
\* a full one and one of a single row
C25_Witness ==
    /\ pc = "chunks"
    /\ i = 2 * chunk_size
    /\ Len(Rows) = chunk_size + 1
    /\ hist.handed = Rows
    /\ global_stats.rows = hist.rows0 + chunk_size + 1

====
